---- MODULE Spec2Model ----
(***************************************************************************)
(* Model of osrm::partition (src/src/partition/partitioner.cpp) and of the *)
(* grid generator of its unit tests                                        *)
(* (src/unit_tests/partition/graph_generator.hpp).                         *)
(*                                                                         *)
(* Five state machines share the module, one specification each:           *)
(*   SpecMapping  NodeBasedGraphToEdgeBasedGraphMapping: loader and Lookup *)
(*   SpecBits     reverse_bits and get_level on pairs of identifiers       *)
(*   SpecGeojson  LogGeojson: the bucket loop and the writer loop          *)
(*   SpecRun      Partitioner::Run with both file loaders                  *)
(*   SpecGrid     makeGridEdges                                            *)
(* A specification leaves the variables of the other machines at rest.     *)
(*                                                                         *)
(* A 32-bit unsigned word (NodeID, EdgeID payloads, partition identifier)  *)
(* is written as the set of the positions of its 1 bits, a subset of       *)
(* 0..31: the model checker's integers are 32-bit signed and cannot hold   *)
(* 2^31..2^32-1.                                                           *)
(***************************************************************************)
EXTENDS Integers, Sequences, FiniteSets, TLC

VARIABLES
    \* NodeBasedGraphToEdgeBasedGraphMapping
    mfile, mpos, heads, tails, mpc, asserts_enabled, lookup_arg, lookup_out,
    \* reverse_bits / get_level on a pair of identifiers
    id_a, id_b, rev_a, rev_b, bit_level, bpc,
    \* LogGeojson
    bisection_ids, arcs, todo, border_vertices, level_calls, visited, pushed,
    wcursor, wlevel, written, gpc,
    \* Partitioner::Run and the loaders
    gfile, mapfile, pc, caller, reads, gobj, graph, lg_graph, mapping_loaded,
    artifacts, run_result,
    \* makeGridEdges
    rows, columns, id_base, build, gr, gc, edges, kpc

mvars == <<mfile, mpos, heads, tails, mpc, asserts_enabled, lookup_arg, lookup_out>>
bvars == <<id_a, id_b, rev_a, rev_b, bit_level, bpc>>
gvars == <<bisection_ids, arcs, todo, border_vertices, level_calls, visited,
           pushed, wcursor, wlevel, written, gpc>>
rvars == <<gfile, mapfile, pc, caller, reads, gobj, graph, lg_graph, mapping_loaded,
           artifacts, run_result>>
kvars == <<rows, columns, id_base, build, gr, gc, edges, kpc>>
vars == <<mvars, bvars, gvars, rvars, kvars>>

None == "none"

\* the variables of the other machines stay as they are
MappingOnly == UNCHANGED <<bvars, gvars, rvars, kvars>>

BitsOnly == UNCHANGED <<mvars, gvars, rvars, kvars>>

GeojsonOnly == UNCHANGED <<mvars, bvars, rvars, kvars>>

RunOnly == UNCHANGED <<mvars, bvars, gvars, kvars>>

GridOnly == UNCHANGED <<mvars, bvars, gvars, rvars>>

-----------------------------------------------------------------------------
(* 32-bit words as sets of bit positions *)

WordBits == 32

BitPositions == 0..(WordBits - 1)

Max(S) == CHOOSE x \in S : \A y \in S : y <= x

Min(S) == CHOOSE x \in S : \A y \in S : x <= y

\* x >> n on a word
ShiftRight(x, n) == {i - n : i \in {j \in x : j >= n}}

\* x << n on a word: bits shifted past position 31 are lost
ShiftLeft(x, n) == {i + n : i \in {j \in x : j + n < WordBits}}

BitAnd(x, m) == x \cap m

BitOr(x, y) == x \cup y

BitXor(x, y) == (x \ y) \cup (y \ x)

\* The word of a non-negative int below 2^31
NatWord(n) == {i \in 0..30 : (n \div (2^i)) % 2 = 1}

-----------------------------------------------------------------------------
(* NodeBasedGraphToEdgeBasedGraphMapping *)

MaxRecords == 2

MaxEdgeID == 2

EdgeIDs == 0..MaxEdgeID

\* SPECIAL_NODEID is the all-ones NodeID
SPECIAL_NODEID == BitPositions

NodeVals == {NatWord(0), NatWord(1)}

\* the (u, v) pairs the files of the model hold
NodeBasedNodes == {p \in [u : NodeVals, v : NodeVals] : p.u # p.v}

MappingRecords ==
    {r \in [u : NodeVals, v : NodeVals, head : EdgeIDs, tail : EdgeIDs] :
        [u |-> r.u, v |-> r.v] \in NodeBasedNodes}

MappingFiles == UNION {[1..n -> MappingRecords] : n \in 0..MaxRecords}

EmptyMap == [e \in {} |-> None]

\* Lookup has not been called
NoLookup == [kind |-> "none"]

MapInsertOverwrite(m, k, val) == [e \in (DOMAIN m) \cup {k} |-> IF e = k THEN val ELSE m[e]]

\* std::unordered_map::insert: an existing key keeps its value
MapInsert(m, k, val) == IF k \in DOMAIN m THEN m ELSE m @@ (k :> val)

LookupHeadsOnly(h, t, e, asserts) ==
    IF e \in DOMAIN h THEN [kind |-> "returned", nodes |-> h[e]]
    ELSE IF asserts THEN [kind |-> "assertion_abort"]
    ELSE [kind |-> "returned", nodes |-> [u |-> SPECIAL_NODEID, v |-> SPECIAL_NODEID]]

\* Lookup: heads, then tails, then BOOST_ASSERT(false) and the sentinel pair.
\* BOOST_ASSERT aborts the process in a build with assertions and is empty in
\* a build without, where the sentinel pair is returned.
Lookup(h, t, e, asserts) ==
    IF e \in DOMAIN h THEN [kind |-> "returned", nodes |-> h[e]]
    ELSE IF e \in DOMAIN t THEN [kind |-> "returned", nodes |-> t[e]]
    ELSE IF asserts THEN [kind |-> "assertion_abort"]
    ELSE [kind |-> "returned", nodes |-> [u |-> SPECIAL_NODEID, v |-> SPECIAL_NODEID]]

MappingIdle ==
    /\ mfile = <<>> /\ mpos = 0 /\ heads = EmptyMap /\ tails = EmptyMap
    /\ mpc = "idle" /\ asserts_enabled = FALSE
    /\ lookup_arg = -1 /\ lookup_out = NoLookup

MappingInit ==
    /\ mfile \in MappingFiles
    /\ asserts_enabled \in BOOLEAN
    /\ mpos = 0 /\ heads = EmptyMap /\ tails = EmptyMap
    /\ mpc = "loading"
    /\ lookup_arg = -1 /\ lookup_out = NoLookup

\* One iteration of the constructor's loop: read (u, v, head, tail), insert
ReadMapping ==
    /\ MappingOnly
    /\ mpc = "loading" /\ mpos < Len(mfile)
    /\ LET rec == mfile[mpos + 1]
           nodes == [u |-> rec.u, v |-> rec.v]
       IN /\ heads' = MapInsert(heads, rec.head, nodes)
          /\ tails' = MapInsert(tails, rec.tail, nodes)
    /\ mpos' = mpos + 1
    /\ UNCHANGED <<mfile, mpc, asserts_enabled, lookup_arg, lookup_out>>

\* The loop ends at i = num_mappings: the mapping is constructed
FinishMapping ==
    /\ MappingOnly
    /\ mpc = "loading" /\ mpos = Len(mfile)
    /\ mpc' = "loaded"
    /\ UNCHANGED <<mfile, mpos, heads, tails, asserts_enabled, lookup_arg, lookup_out>>

DoLookup ==
    /\ MappingOnly
    /\ mpc = "loaded"
    /\ \E e \in EdgeIDs :
          /\ lookup_arg' = e
          /\ lookup_out' = Lookup(heads, tails, e, asserts_enabled)
    \* a failed assertion ends the process
    /\ mpc' = IF lookup_out'.kind = "assertion_abort" THEN "aborted" ELSE "loaded"
    /\ UNCHANGED <<mfile, mpos, heads, tails, asserts_enabled>>

MappingNext == ReadMapping \/ FinishMapping \/ DoLookup

-----------------------------------------------------------------------------
(* reverse_bits and get_level *)

Mask55555555 == {i \in BitPositions : i % 2 = 0}

Mask33333333 == {i \in BitPositions : i % 4 < 2}

Mask0f0f0f0f == {i \in BitPositions : i % 8 < 4}

Mask00ff00ff == {i \in BitPositions : i % 16 < 8}

Maskffff == {i \in BitPositions : i < 16}

\* ((x >> n) & m) | ((x & m) << n)
SwapStep(x, n, m) == BitOr(BitAnd(ShiftRight(x, n), m), ShiftLeft(BitAnd(x, m), n))

ReverseBitsNoWordSwap(x) ==
    LET x1 == SwapStep(x, 1, Mask55555555)
        x2 == SwapStep(x1, 2, Mask33333333)
        x3 == SwapStep(x2, 4, Mask0f0f0f0f)
    IN SwapStep(x3, 8, Mask00ff00ff)

ReverseBits(x) ==
    LET x1 == SwapStep(x, 1, Mask55555555)
        x2 == SwapStep(x1, 2, Mask33333333)
        x3 == SwapStep(x2, 4, Mask0f0f0f0f)
        x4 == SwapStep(x3, 8, Mask00ff00ff)
    IN SwapStep(x4, 16, Maskffff)

\* border_vertices(33)
NumBuckets == 33

GetLevelLowestBit(lhs, rhs) ==
    LET xored == BitXor(lhs, rhs)
    IN IF xored = {} THEN 0..(NumBuckets - 1) ELSE {Min(xored)}

\* get_level: std::uint32_t level = log(xored) / log(2.0).  For xored in
\* 1..2^32-1 the double quotient truncates to the position of the highest
\* 1 bit (the quotient of a power of two 2^k is not below k in IEEE double
\* arithmetic, and every other argument is further from an integer than the
\* rounding error).  For xored = 0 the quotient is -infinity and its
\* conversion to uint32 is undefined: any value may result, of which the
\* indices of the bucket array are kept here.
GetLevel(lhs, rhs) ==
    LET xored == BitXor(lhs, rhs)
    IN IF xored = {} THEN 0..(NumBuckets - 1) ELSE {Max(xored)}

IsBoundaryArcAlways(source_id, target_id) == TRUE

\* if (source_id != target_id)
IsBoundaryArc(source_id, target_id) == source_id # target_id

LowBits == 2

HighBits == 2

SampleBits == (0..(LowBits - 1)) \cup ((WordBits - HighBits)..(WordBits - 1)) \cup {15, 16}

IdSamples == SUBSET SampleBits

BitsIdle ==
    /\ id_a = {} /\ id_b = {} /\ rev_a = {} /\ rev_b = {}
    /\ bit_level = None /\ bpc = "idle"

BitsInit ==
    /\ id_a \in IdSamples /\ id_b \in IdSamples
    /\ rev_a = {} /\ rev_b = {} /\ bit_level = None /\ bpc = "start"

\* source_id = reverse_bits(ids[nid]); target_id = reverse_bits(ids[target])
ReverseIds ==
    /\ BitsOnly
    /\ bpc = "start"
    /\ rev_a' = ReverseBits(id_a)
    /\ rev_b' = ReverseBits(id_b)
    /\ bpc' = "reversed"
    /\ UNCHANGED <<id_a, id_b, bit_level>>

ComputeLevel ==
    /\ BitsOnly
    /\ bpc = "reversed"
    /\ IsBoundaryArc(rev_a, rev_b)
    /\ \E l \in GetLevel(rev_a, rev_b) : bit_level' = l
    /\ bpc' = "leveled"
    /\ UNCHANGED <<id_a, id_b, rev_a, rev_b>>

SkipSameCell ==
    /\ BitsOnly
    /\ bpc = "reversed"
    /\ ~IsBoundaryArc(rev_a, rev_b)
    /\ bpc' = "same_cell"
    /\ UNCHANGED <<id_a, id_b, rev_a, rev_b, bit_level>>

BitsNext == ReverseIds \/ ComputeLevel \/ SkipSameCell

-----------------------------------------------------------------------------
(* LogGeojson: the bucket loop (lines 162-177), the writer loop (179-195) *)

MaxArcs == 2

MaxDepth == 2

GeoNodes == {0, 1, 2}

\* identifiers of a partition at most MaxDepth levels deep: the first split
\* is bit 0, deeper bits are 0
GeoIds == SUBSET (0..(MaxDepth - 1))

GeoArcs == GeoNodes \X GeoNodes

\* graph.Node(n).coordinate
Coordinate(n) == [lon |-> 2 - n, lat |-> n]

\* std::tie(lhs.lon, lhs.lat) < std::tie(rhs.lon, rhs.lat)
CoordLess(l, r) == l.lon < r.lon \/ (l.lon = r.lon /\ l.lat < r.lat)

ArcLess(x, y) == x[1] < y[1] \/ (x[1] = y[1] /\ x[2] < y[2])

Range(f) == {f[i] : i \in DOMAIN f}

RECURSIVE SortedCoords(_)
SortedCoords(S) ==
    IF S = {} THEN <<>>
    ELSE LET m == CHOOSE x \in S : \A y \in S \ {x} : CoordLess(x, y)
         IN <<m>> \o SortedCoords(S \ {m})

\* std::sort, then erase(std::unique)
SortUnique(bv) == SortedCoords(Range(bv))

\* the arcs in the order the loops visit them: by source node, then Edges(nid)
RECURSIVE VisitOrder(_)
VisitOrder(A) ==
    IF A = {} THEN <<>>
    ELSE LET m == CHOOSE x \in A : \A y \in A \ {x} : ArcLess(x, y)
         IN <<m>> \o VisitOrder(A \ {m})

EmptyBuckets == [k \in 0..(NumBuckets - 1) |-> <<>>]

GeojsonIdle ==
    /\ bisection_ids = <<>> /\ arcs = {} /\ todo = <<>>
    /\ border_vertices = <<>> /\ level_calls = {} /\ visited = {} /\ pushed = {}
    /\ wcursor = 0 /\ wlevel = 0 /\ written = <<>> /\ gpc = "idle"

GeojsonInit ==
    /\ bisection_ids \in [GeoNodes -> GeoIds]
    /\ arcs \in {A \in SUBSET GeoArcs : Cardinality(A) <= MaxArcs}
    /\ todo = VisitOrder(arcs)
    /\ border_vertices = EmptyBuckets
    /\ level_calls = {} /\ visited = {} /\ pushed = {}
    /\ wcursor = 0 /\ wlevel = 0 /\ written = <<>> /\ gpc = "grouping"

\* the body of the inner loop for one arc (nid, edge.target)
VisitArc ==
    /\ GeojsonOnly
    /\ gpc = "grouping" /\ todo # <<>>
    /\ LET arc == Head(todo)
           source_id == ReverseBits(bisection_ids[arc[1]])
           target_id == ReverseBits(bisection_ids[arc[2]])
       IN /\ visited' = visited \cup {arc}
          /\ IF IsBoundaryArc(source_id, target_id)
             THEN \E level \in GetLevel(source_id, target_id) :
                    /\ level_calls' = level_calls \cup {BitXor(source_id, target_id)}
                    /\ border_vertices' =
                         [border_vertices EXCEPT
                            ![level] = @ \o <<Coordinate(arc[1]), Coordinate(arc[2])>>]
                    /\ pushed' = pushed \cup {arc}
             ELSE UNCHANGED <<level_calls, border_vertices, pushed>>
    /\ todo' = Tail(todo)
    /\ UNCHANGED <<bisection_ids, arcs, wcursor, wlevel, written, gpc>>

\* the node loop ends; the guard opens border_vertices.geojson
StartWriting ==
    /\ GeojsonOnly
    /\ gpc = "grouping" /\ todo = <<>>
    /\ gpc' = "writing"
    /\ UNCHANGED <<bisection_ids, arcs, todo, border_vertices, level_calls,
                   visited, pushed, wcursor, wlevel, written>>

NonEmptyFrom(k) == {j \in k..(NumBuckets - 1) : border_vertices[j] # <<>>}

\* the writer loop up to and including the next non-empty bucket:
\* jslevel.values["level"] = level++; guard.Write(bv, jslevel)
WriteBucket ==
    /\ GeojsonOnly
    /\ gpc = "writing" /\ NonEmptyFrom(wcursor) # {}
    /\ LET k == Min(NonEmptyFrom(wcursor))
       IN /\ written' = Append(written, [level |-> wlevel, bucket |-> k,
                                         points |-> SortUnique(border_vertices[k])])
          /\ wcursor' = k + 1
    /\ wlevel' = wlevel + 1
    /\ UNCHANGED <<bisection_ids, arcs, todo, border_vertices, level_calls,
                   visited, pushed, gpc>>

\* the remaining buckets are empty: the loop ends and the guard closes the file
FinishWriting ==
    /\ GeojsonOnly
    /\ gpc = "writing" /\ NonEmptyFrom(wcursor) = {}
    /\ gpc' = "done"
    /\ wcursor' = NumBuckets
    /\ UNCHANGED <<bisection_ids, arcs, todo, border_vertices, level_calls,
                   visited, pushed, wlevel, written>>

GeojsonNext == VisitArc \/ StartWriting \/ WriteBucket \/ FinishWriting

-----------------------------------------------------------------------------
(* Partitioner::Run, LoadCompressedNodeBasedGraph,                         *)
(* LoadNodeBasedGraphToEdgeBasedGraphMapping                               *)

MaxFileCount == 1

\* a graph file: the fingerprint, the two declared counts, and how many edge
\* and coordinate records the file really holds (fewer: the file is truncated)
GraphFiles ==
    {f \in [fingerprint : {"valid", "corrupt"},
            num_edges : 0..MaxFileCount, num_nodes : 0..MaxFileCount,
            edge_records : 0..MaxFileCount, coord_records : 0..MaxFileCount] :
        f.edge_records <= f.num_edges /\ f.coord_records <= f.num_nodes}

MappingHeaderFiles ==
    {f \in [fingerprint : {"valid", "corrupt"},
            count : 0..MaxFileCount, records : 0..MaxFileCount] :
        f.records <= f.count}

GraphFingerprintFlagNone == "HasNoFingerprint"

\* const auto fingerprint = storage::io::FileReader::VerifyFingerprint
GraphFingerprintFlag == "VerifyFingerprint"

MappingFingerprintFlag == "VerifyFingerprint"

\* storage::io::FileReader's constructor: with VerifyFingerprint it reads the
\* fingerprint and throws when it does not match
ReaderOpens(file, flag) == flag # "VerifyFingerprint" \/ file.fingerprint = "valid"

\* ReadInto / ReadOne: reading more records than the file holds throws
ReadSucceeds(wanted, present) == wanted <= present

\* no CompressedNodeBasedGraph object
NoGraph == [state |-> "none"]

RunIdle ==
    /\ gfile = None /\ mapfile = None /\ pc = "idle" /\ caller = None
    /\ reads = <<>> /\ gobj = NoGraph /\ graph = NoGraph /\ lg_graph = NoGraph
    /\ mapping_loaded = FALSE /\ artifacts = {} /\ run_result = None

RunInit ==
    /\ gfile \in GraphFiles /\ mapfile \in MappingHeaderFiles
    /\ pc = "run_start" /\ caller = None
    /\ reads = <<>> /\ gobj = NoGraph /\ graph = NoGraph /\ lg_graph = NoGraph
    /\ mapping_loaded = FALSE /\ artifacts = {} /\ run_result = "running"

\* an exception leaves the loader, LogGeojson and Run: nothing catches it
Throw ==
    /\ pc' = "terminated"
    /\ run_result' = "format_error"
    /\ gobj' = NoGraph

\* Run calls LoadCompressedNodeBasedGraph(config.compressed_node_based_graph_path)
RunLoadGraph ==
    /\ RunOnly
    /\ pc = "run_start"
    /\ pc' = "g_open" /\ caller' = "Run" /\ reads' = <<>>
    /\ UNCHANGED <<gfile, mapfile, gobj, graph, lg_graph, mapping_loaded,
                   artifacts, run_result>>

\* FileReader reader(path, fingerprint)
GraphOpen ==
    /\ RunOnly
    /\ pc = "g_open"
    /\ IF GraphFingerprintFlag = "VerifyFingerprint"
       THEN reads' = Append(reads, "fingerprint")
       ELSE reads' = reads
    /\ IF ReaderOpens(gfile, GraphFingerprintFlag)
       THEN /\ pc' = "g_counts"
            /\ UNCHANGED <<gobj, run_result>>
       ELSE Throw
    /\ UNCHANGED <<gfile, mapfile, caller, graph, lg_graph, mapping_loaded, artifacts>>

\* num_edges, num_nodes = ReadElementCount64(); edges.resize; coordinates.resize
GraphReadCounts ==
    /\ RunOnly
    /\ pc = "g_counts"
    /\ reads' = reads \o <<"num_edges", "num_nodes">>
    /\ gobj' = [state |-> "constructed", edges_size |-> gfile.num_edges, coordinates_size |-> gfile.num_nodes,
                edges_filled |-> 0, coordinates_filled |-> 0]
    /\ pc' = "g_edges"
    /\ UNCHANGED <<gfile, mapfile, caller, graph, lg_graph, mapping_loaded,
                   artifacts, run_result>>

\* reader.ReadInto(edges)
GraphReadEdges ==
    /\ RunOnly
    /\ pc = "g_edges"
    /\ reads' = Append(reads, "edges")
    /\ IF ReadSucceeds(gobj.edges_size, gfile.edge_records)
       THEN /\ gobj' = [gobj EXCEPT !.edges_filled = gobj.edges_size]
            /\ pc' = "g_coordinates"
            /\ UNCHANGED run_result
       ELSE Throw
    /\ UNCHANGED <<gfile, mapfile, caller, graph, lg_graph, mapping_loaded, artifacts>>

\* reader.ReadInto(coordinates)
GraphReadCoordinates ==
    /\ RunOnly
    /\ pc = "g_coordinates"
    /\ reads' = Append(reads, "coordinates")
    /\ IF ReadSucceeds(gobj.coordinates_size, gfile.coord_records)
       THEN /\ gobj' = [gobj EXCEPT !.coordinates_filled = gobj.coordinates_size]
            /\ pc' = "g_return"
            /\ UNCHANGED run_result
       ELSE Throw
    /\ UNCHANGED <<gfile, mapfile, caller, graph, lg_graph, mapping_loaded, artifacts>>

\* return graph: to Run, or to LogGeojson
GraphReturn ==
    /\ RunOnly
    /\ pc = "g_return"
    /\ IF caller = "Run"
       THEN /\ graph' = gobj /\ pc' = "bisect" /\ UNCHANGED lg_graph
       ELSE /\ lg_graph' = gobj /\ pc' = "lg_write" /\ UNCHANGED graph
    /\ gobj' = NoGraph
    /\ UNCHANGED <<gfile, mapfile, caller, reads, mapping_loaded, artifacts, run_result>>

\* groupEdgesBySource, makeBisectionGraph, RecursiveBisection; the edges of
\* the loaded graph are moved from
RunBisect ==
    /\ RunOnly
    /\ pc = "bisect"
    /\ pc' = "lg_start"
    /\ UNCHANGED <<gfile, mapfile, caller, reads, gobj, graph, lg_graph,
                   mapping_loaded, artifacts, run_result>>

\* LogGeojson reloads the graph from the same file
LogGeojsonReload ==
    /\ RunOnly
    /\ pc = "lg_start"
    /\ pc' = "g_open" /\ caller' = "LogGeojson" /\ reads' = <<>>
    /\ UNCHANGED <<gfile, mapfile, gobj, graph, lg_graph, mapping_loaded,
                   artifacts, run_result>>

\* the rest of LogGeojson: the guard creates border_vertices.geojson, the
\* groups are written, the guard closes the file
LogGeojsonWrite ==
    /\ RunOnly
    /\ pc = "lg_write"
    /\ artifacts' = artifacts \cup {"border_vertices.geojson"}
    /\ pc' = "m_open"
    /\ UNCHANGED <<gfile, mapfile, caller, reads, gobj, graph, lg_graph,
                   mapping_loaded, run_result>>

\* LoadNodeBasedGraphToEdgeBasedGraphMapping: FileReader reader(path, fingerprint)
MappingOpen ==
    /\ RunOnly
    /\ pc = "m_open"
    /\ reads' = <<"fingerprint">>
    /\ caller' = "Run"
    /\ IF ReaderOpens(mapfile, MappingFingerprintFlag)
       THEN /\ pc' = "m_records"
            /\ UNCHANGED <<gobj, run_result>>
       ELSE Throw
    /\ UNCHANGED <<gfile, mapfile, graph, lg_graph, mapping_loaded, artifacts>>

\* num_mappings = ReadElementCount64(), then the loop of ReadOne calls
MappingReadRecords ==
    /\ RunOnly
    /\ pc = "m_records"
    /\ reads' = reads \o <<"num_mappings", "mappings">>
    /\ IF ReadSucceeds(mapfile.count, mapfile.records)
       THEN /\ mapping_loaded' = TRUE
            /\ pc' = "return"
            /\ UNCHANGED <<gobj, run_result>>
       ELSE /\ Throw
            /\ UNCHANGED mapping_loaded
    /\ UNCHANGED <<gfile, mapfile, caller, graph, lg_graph, artifacts>>

\* return 0
RunReturn ==
    /\ RunOnly
    /\ pc = "return"
    /\ run_result' = "returned_0"
    /\ pc' = "terminated"
    /\ UNCHANGED <<gfile, mapfile, caller, reads, gobj, graph, lg_graph,
                   mapping_loaded, artifacts>>

RunNext ==
    \/ RunLoadGraph \/ GraphOpen \/ GraphReadCounts \/ GraphReadEdges
    \/ GraphReadCoordinates \/ GraphReturn \/ RunBisect \/ LogGeojsonReload
    \/ LogGeojsonWrite \/ MappingOpen \/ MappingReadRecords \/ RunReturn

-----------------------------------------------------------------------------
(* makeGridEdges *)

MaxRows == 3

MaxColumns == 3

MaxIdBase == 1

MaxSlack == 4

\* the largest int
INT_MAX == 2147483647

IdBases == (0..MaxIdBase) \cup {INT_MAX - s : s \in 0..MaxSlack}

\* a + b on ints, b >= 0, exceeds INT_MAX
Overflows(a, b) == a > INT_MAX - b

\* a + b on ints, b >= 0: past INT_MAX the sum is undefined; the machine sum
\* is a + b - 2^32
IntAdd(a, b) ==
    IF Overflows(a, b) THEN (a - INT_MAX - 1) + (b - INT_MAX - 1) ELSE a + b

\* get_id(r, c) = id_base + r * columns + c
GetId(r, c) == IntAdd(IntAdd(id_base, r * columns), c)

GetIdOverflows(r, c) ==
    Overflows(id_base, r * columns) \/ Overflows(IntAdd(id_base, r * columns), c)

\* max_id = id_base + rows * columns
MaxId == IntAdd(id_base, rows * columns)

\* valid(id) = id >= min_id && id < max_id.  When an addition that feeds the
\* comparison overflowed, the behaviour is undefined: a build that computes
\* the wrapped sums compares them as they are, a build whose compiler uses
\* the absence of overflow folds the range check of a cell of the grid to
\* true.
Valid(id, overflowed) ==
    IF overflowed /\ build = "folded" THEN TRUE ELSE id >= id_base /\ id < MaxId

\* static_cast<NodeID>(id): the value modulo 2^32
ToNodeID(x) ==
    IF x >= 0 THEN NatWord(x) ELSE NatWord((x + INT_MAX) + 1) \cup {31}

HasRightOffByOne(c) == c < columns

\* if (c + 1 < columns)
HasRight(c) == c + 1 < columns

GridEdge(from, to) == [source |-> ToNodeID(from), target |-> ToNodeID(to), important_data |-> 1]

\* the edges one iteration of the inner loop appends for cell (r, c)
CellEdges(r, c) ==
    LET id == GetId(r, c)
        maxOv == Overflows(id_base, rows * columns)
        left == IF c > 0 THEN <<GridEdge(id, GetId(r, c - 1))>> ELSE <<>>
        right == IF HasRight(c) /\ Valid(GetId(r, c + 1), maxOv \/ GetIdOverflows(r, c + 1))
                 THEN <<GridEdge(id, GetId(r, c + 1))>> ELSE <<>>
        top == IF r > 0 /\ Valid(GetId(r - 1, c), maxOv \/ GetIdOverflows(r - 1, c))
               THEN <<GridEdge(id, GetId(r - 1, c))>> ELSE <<>>
        bottom == IF r + 1 < rows /\ Valid(GetId(r + 1, c), maxOv \/ GetIdOverflows(r + 1, c))
                  THEN <<GridEdge(id, GetId(r + 1, c))>> ELSE <<>>
    IN left \o right \o top \o bottom

GridIdle ==
    /\ rows = 0 /\ columns = 0 /\ id_base = 0 /\ build = None
    /\ gr = 0 /\ gc = 0 /\ edges = <<>> /\ kpc = "idle"

GridInit ==
    /\ rows \in 1..MaxRows /\ columns \in 1..MaxColumns /\ id_base \in IdBases
    /\ build \in {"wrapping", "folded"}
    /\ gr = 0 /\ gc = 0 /\ edges = <<>> /\ kpc = "loop"

\* one iteration of the inner loop, and the loop counters' advance
GridCell ==
    /\ GridOnly
    /\ kpc = "loop" /\ gr < rows
    /\ edges' = edges \o CellEdges(gr, gc)
    /\ IF gc + 1 < columns
       THEN gc' = gc + 1 /\ gr' = gr
       ELSE gc' = 0 /\ gr' = gr + 1
    /\ UNCHANGED <<rows, columns, id_base, build, kpc>>

\* return edges
GridReturn ==
    /\ GridOnly
    /\ kpc = "loop" /\ gr = rows
    /\ kpc' = "done"
    /\ UNCHANGED <<rows, columns, id_base, build, gr, gc, edges>>

GridNext == GridCell \/ GridReturn

-----------------------------------------------------------------------------
(* Specifications *)

InitMapping == MappingInit /\ BitsIdle /\ GeojsonIdle /\ RunIdle /\ GridIdle

SpecMapping == InitMapping /\ [][MappingNext]_vars

InitBits == MappingIdle /\ BitsInit /\ GeojsonIdle /\ RunIdle /\ GridIdle

SpecBits == InitBits /\ [][BitsNext]_vars

InitGeojson == MappingIdle /\ BitsIdle /\ GeojsonInit /\ RunIdle /\ GridIdle

SpecGeojson == InitGeojson /\ [][GeojsonNext]_vars

InitRun == MappingIdle /\ BitsIdle /\ GeojsonIdle /\ RunInit /\ GridIdle

SpecRun == InitRun /\ [][RunNext]_vars

InitGrid == MappingIdle /\ BitsIdle /\ GeojsonIdle /\ RunIdle /\ GridInit

SpecGrid == InitGrid /\ [][GridNext]_vars

-----------------------------------------------------------------------------
(* Properties of the mapping: SpecMapping *)

Returned(rec) == [kind |-> "returned", nodes |-> [u |-> rec.u, v |-> rec.v]]

HeadRecords(e) == {i \in DOMAIN mfile : mfile[i].head = e}

TailRecords(e) == {i \in DOMAIN mfile : mfile[i].tail = e}

LookupMissed ==
    /\ lookup_out # NoLookup
    /\ lookup_arg \notin (DOMAIN heads \cup DOMAIN tails)

\* C1: a Lookup of an EdgeID that is a key of neither table never returns a
\* node pair to the caller (an abort by a failed assertion is counted in the
\* claim's favour here); with an empty file every Lookup is such a miss.
C1_LookupMissNeverReturnsPair ==
    /\ LookupMissed => lookup_out.kind # "returned"
    /\ (lookup_out # NoLookup /\ mfile = <<>>) => lookup_out.kind # "returned"

\* C2 as stated: after loading any file, Lookup of the head and of the tail
\* of every record returns that record's (u, v).
C2_RoundTripEveryFile ==
    lookup_out # NoLookup =>
        \A i \in DOMAIN mfile :
            (mfile[i].head = lookup_arg \/ mfile[i].tail = lookup_arg)
                => lookup_out = Returned(mfile[i])

\* every EdgeID of the file carries one (u, v): the records that name it, as
\* head or as tail, agree on the pair
OnePairPerEdgeID ==
    \A i, j \in DOMAIN mfile :
        ({mfile[i].head, mfile[i].tail} \cap {mfile[j].head, mfile[j].tail} # {})
            => (mfile[i].u = mfile[j].u /\ mfile[i].v = mfile[j].v)

\* C2 amended: the round trip holds for every file in which the records that
\* name an EdgeID (as head or tail) agree on (u, v).
C2_RoundTripOnePairPerEdgeID ==
    (lookup_out # NoLookup /\ OnePairPerEdgeID) =>
        \A i \in DOMAIN mfile :
            (mfile[i].head = lookup_arg \/ mfile[i].tail = lookup_arg)
                => lookup_out = Returned(mfile[i])

C2_Witness ==
    /\ lookup_out # NoLookup /\ OnePairPerEdgeID /\ Len(mfile) = 2
    /\ mfile[1].u # mfile[2].u
    /\ mfile[2].tail = lookup_arg
    /\ mfile[2].head # lookup_arg

HeadsSeen == {mfile[i].head : i \in 1..mpos}

TailsSeen == {mfile[i].tail : i \in 1..mpos}

\* C7: Lookup(e) returns the pair of the first record whose head is e, if
\* there is one, and otherwise the pair of the first record whose tail is e;
\* during loading each table holds, for every key read so far, the pair of
\* the first record with that key, and holds no key of the other column.
C7_FirstRecordHeadsThenTails ==
    /\ DOMAIN heads = HeadsSeen /\ DOMAIN tails = TailsSeen
    /\ \A e \in DOMAIN heads :
          Returned(mfile[Min({i \in HeadRecords(e) : i <= mpos})]).nodes = heads[e]
    /\ \A e \in DOMAIN tails :
          Returned(mfile[Min({i \in TailRecords(e) : i <= mpos})]).nodes = tails[e]
    /\ lookup_out # NoLookup =>
          IF HeadRecords(lookup_arg) # {}
          THEN lookup_out = Returned(mfile[Min(HeadRecords(lookup_arg))])
          ELSE TailRecords(lookup_arg) # {}
                  => lookup_out = Returned(mfile[Min(TailRecords(lookup_arg))])

C7_Witness ==
    /\ lookup_out # NoLookup /\ Len(mfile) = 2
    /\ mfile[1].tail = lookup_arg /\ mfile[1].head # lookup_arg
    /\ mfile[2].head = lookup_arg
    /\ mfile[1].u # mfile[2].u
    /\ lookup_out = Returned(mfile[2])

-----------------------------------------------------------------------------
(* Properties of reverse_bits and get_level: SpecBits *)

\* the stored identifiers differ in the bit of the first split only
DifferInFirstSplitOnly == BitXor(id_a, id_b) = {0}

\* C3 as stated: identifiers that differ only in the least-significant bit
\* get level 0.
C3_ShallowestSplitIsLevel0 ==
    (bpc = "leveled" /\ DifferInFirstSplitOnly) => bit_level = 0

\* C3 amended: identifiers that differ only in the least-significant bit get
\* level 31.
C3_ShallowestSplitIsLevel31 ==
    (bpc = "leveled" /\ DifferInFirstSplitOnly) => bit_level = 31

C3_Witness ==
    /\ bpc = "leveled" /\ DifferInFirstSplitOnly
    /\ 31 \in id_a /\ 1 \in id_b

Mirror(x) == {(WordBits - 1) - i : i \in x}

\* C8: reverse_bits moves bit i to bit 31 - i and undoes itself; the level of
\* two distinct identifiers is 31 - d, d the lowest bit in which they
\* differ, whatever their higher bits; it lies in 0..31, inside the 33
\* buckets.
C8_LevelIs31MinusLowestDifference ==
    /\ bpc # "start" =>
          /\ rev_a = Mirror(id_a) /\ rev_b = Mirror(id_b)
          /\ ReverseBits(rev_a) = id_a /\ ReverseBits(rev_b) = id_b
    /\ bpc = "leveled" =>
          /\ id_a # id_b
          /\ bit_level = 31 - Min(BitXor(id_a, id_b))
          /\ bit_level \in 0..31
          /\ bit_level < NumBuckets
    /\ (bpc = "same_cell") => id_a = id_b

C8_Witness ==
    /\ bpc = "leveled"
    /\ Min(BitXor(id_a, id_b)) = 1
    /\ Cardinality(BitXor(id_a, id_b)) >= 3
    /\ bit_level = 30

-----------------------------------------------------------------------------
(* Properties of LogGeojson: SpecGeojson *)

SameId(arc) == bisection_ids[arc[1]] = bisection_ids[arc[2]]

RECURSIVE SumLen(_, _)
SumLen(f, S) ==
    IF S = {} THEN 0
    ELSE LET k == CHOOSE x \in S : TRUE IN Len(f[k]) + SumLen(f, S \ {k})

C9_GroupLevelIsBucketIndex ==
    /\ \A i \in DOMAIN written :
          /\ written[i].level = written[i].bucket
          /\ written[i].points # <<>>
    /\ \A i, j \in DOMAIN written : i # j => written[i].level # written[j].level

-----------------------------------------------------------------------------
(* Properties of Run and the loaders: SpecRun *)

\* C5: the fingerprint is the first thing read from the graph file; with a
\* corrupted fingerprint nothing else is read, the load ends in a format
\* error, and no graph, empty or partly filled, reaches the caller.
C5_CorruptFingerprintFailsFirst ==
    /\ (caller # None /\ pc # "g_open") => (reads # <<>> /\ reads[1] = "fingerprint")
    /\ (pc # "idle" /\ gfile.fingerprint = "corrupt") =>
          /\ \A i \in DOMAIN reads : reads[i] = "fingerprint"
          /\ gobj = NoGraph /\ graph = NoGraph /\ lg_graph = NoGraph
          /\ pc \in {"run_start", "g_open", "terminated"}
          /\ pc = "terminated" => run_result = "format_error"
          /\ run_result # "returned_0"

C5_Witness ==
    /\ pc = "terminated" /\ run_result = "format_error"
    /\ gfile.fingerprint = "corrupt"
    /\ gfile.num_edges > 0 /\ gfile.edge_records > 0
    /\ reads = <<"fingerprint">>

\* C6: when loading the graph file or the mapping file fails, Run does not
\* return 0, no later stage runs, and no artifact written earlier in the run
\* remains.
C6_FailureRetainsNothing ==
    run_result = "format_error" =>
        /\ pc = "terminated"
        /\ ~mapping_loaded
        /\ artifacts = {}

-----------------------------------------------------------------------------
(* Properties of makeGridEdges: SpecGrid *)

Cells == (0..(rows - 1)) \X (0..(columns - 1))

Abs(x) == IF x < 0 THEN -x ELSE x

Adjacent(p, q) == Abs(p[1] - q[1]) + Abs(p[2] - q[2]) = 1

\* the NodeID id_base + k, for k below the number of cells
CellWord(k) ==
    IF id_base <= INT_MAX - k THEN NatWord(id_base + k)
    ELSE NatWord((k - (INT_MAX - id_base)) - 1) \cup {31}

CellNode(p) == CellWord(p[1] * columns + p[2])

ExpectedArcs == {<<CellNode(pq[1]), CellNode(pq[2])>> : pq \in {x \in Cells \X Cells : Adjacent(x[1], x[2])}}

EdgePairs == {<<edges[i].source, edges[i].target>> : i \in DOMAIN edges}

GridIsFourNeighbour ==
    /\ EdgePairs = ExpectedArcs
    /\ \A i, j \in DOMAIN edges :
          (i # j) => <<edges[i].source, edges[i].target>> # <<edges[j].source, edges[j].target>>
    /\ \A a \in EdgePairs : <<a[2], a[1]>> \in EdgePairs
    /\ Len(edges) = 2 * (rows * (columns - 1) + columns * (rows - 1))
    /\ \A i \in DOMAIN edges :
          /\ edges[i].source # edges[i].target
          /\ edges[i].source \in {CellWord(k) : k \in 0..(rows * columns - 1)}
          /\ edges[i].target \in {CellWord(k) : k \in 0..(rows * columns - 1)}
          /\ edges[i].important_data = 1

\* C10 as stated: for all rows >= 1, columns >= 1, id_base >= 0 the returned
\* list is exactly the 4-neighbour grid, each arc once.
C10_GridForEveryIdBase == kpc = "done" => GridIsFourNeighbour

\* C10 amended: the same, for id_base + rows * columns <= INT_MAX.
C10_GridWithoutIntOverflow ==
    (kpc = "done" /\ id_base <= INT_MAX - rows * columns) => GridIsFourNeighbour

C10_Witness ==
    /\ kpc = "done" /\ rows = 2 /\ columns = 2
    /\ id_base = INT_MAX - 4
    /\ Len(edges) = 8

====
